---- MODULE Spec2Model ----
(***************************************************************************)
(* spbuilder.py: rebuild X-Plane's scenery_packs.ini from a scenery DB     *)
(* (category list files) and a scan of the Custom Scenery folder.          *)
(*                                                                         *)
(* A Python str is a sequence of one-character strings, so that strip,     *)
(* basename, startswith, sorting and slicing are computed character by     *)
(* character.  The text returned by make_scenery_ini is a TLA+ string      *)
(* built by concatenation.                                                 *)
(***************************************************************************)
EXTENDS Integers, Sequences, FiniteSets, TLC

VARIABLES
    platform,   \* "posix" or "nt": which os.path the interpreter binds
    conf_file,  \* the config file on disk: whether it exists, and what it holds
    dir,        \* <install_path>/Custom Scenery on disk: missing, a file, or a folder and its listing
    files,      \* the category list files on disk: option name -> whether it exists, its lines
    outdir,     \* whether the directory of an explicit scenery_packs path exists
    pc,         \* position of the run
    cfg,        \* the ConfigParser read by read_config
    dscen,      \* the list object returned by read_scenery_db
    cscen,      \* the list object bound to cscen in read_all_sceneries
    sceneries,  \* contents of make_scenery_ini's local list `sceneries` at line 183
    results,    \* what each call of make_scenery_ini returned or raised
    err,        \* the exception that ended the run, or NoError
    outfile,    \* the scenery_packs.ini file: Untouched or the text written
    iolog       \* the file-system operations performed so far, in order

vars == << platform, conf_file, dir, files, outdir, pc, cfg, dscen, cscen,
           sceneries, results, err, outfile, iolog >>

\* ------------------------------------------------------------------ bounds

MaxLive == 2    \* entries found in the custom scenery folder
MaxCats == 2    \* category options present in the [scenery] section
MaxLines == 2   \* lines in one category list file

\* --------------------------------------------------------------- constants

Absent    == "<absent>"
Untouched == "<untouched>"
NoError   == "<none>"

SEC_SCENERY == "scenery"
OPT_SCENERY_LIBS == "libraries"
OPT_SCENERY_MESHES == "base"
OPT_SCENERY_DEFAULT_AIRPORTS == "default_airports"
OPT_SCENERY_CUSTOM_AIRPORTS == "custom_airports"
OPT_SCENERY_TOP == "top"
SEC_XPL == "xplane"
SEC_OPS == "ops"

HEADER == "I\n1000 Version\nSCENERY\n\n"

\* faulty variant of STYPES: libraries ahead of the default airports
STYPES_libraries_first ==
    << OPT_SCENERY_TOP, OPT_SCENERY_CUSTOM_AIRPORTS, OPT_SCENERY_LIBS,
       OPT_SCENERY_DEFAULT_AIRPORTS, OPT_SCENERY_MESHES >>

\* the tuple read_scenery_db iterates over
STYPES == << OPT_SCENERY_TOP, OPT_SCENERY_CUSTOM_AIRPORTS,
             OPT_SCENERY_DEFAULT_AIRPORTS, OPT_SCENERY_LIBS, OPT_SCENERY_MESHES >>

\* ------------------------------------------------------------ Python str

\* code points of the characters that occur in sorted entries
Ord(c) ==
    CASE c = "\t" -> 9   [] c = "\n" -> 10  [] c = " " -> 32  [] c = "-" -> 45
      [] c = "/" -> 47   [] c = "C" -> 67   [] c = "N" -> 78  [] c = "O" -> 79
      [] c = "S" -> 83   [] c = "Z" -> 90   [] c = "\\" -> 92 [] c = "a" -> 97
      [] c = "c" -> 99   [] c = "d" -> 100  [] c = "e" -> 101 [] c = "l" -> 108
      [] c = "m" -> 109  [] c = "n" -> 110  [] c = "o" -> 111 [] c = "r" -> 114
      [] c = "s" -> 115  [] c = "t" -> 116  [] c = "u" -> 117 [] c = "w" -> 119
      [] c = "y" -> 121  [] c = "z" -> 122  [] c = "~" -> 126

\* str.__lt__: lexicographic by code point, a proper prefix is smaller
RECURSIVE str_lt(_, _)
str_lt(a, b) ==
    IF b = << >> THEN FALSE
    ELSE IF a = << >> THEN TRUE
    ELSE IF Head(a) = Head(b) THEN str_lt(Tail(a), Tail(b))
    ELSE Ord(Head(a)) < Ord(Head(b))

\* the characters str.strip() removes
Whitespace == { " ", "\t", "\n", "\r" }

RECURSIVE lstrip(_, _)
lstrip(s, chars) ==
    IF s # << >> /\ Head(s) \in chars THEN lstrip(Tail(s), chars) ELSE s

RECURSIVE rstrip(_, _)
rstrip(s, chars) ==
    IF s # << >> /\ s[Len(s)] \in chars
    THEN rstrip(SubSeq(s, 1, Len(s) - 1), chars) ELSE s

strip(s) == rstrip(lstrip(s, Whitespace), Whitespace)

startswith(s, prefix) ==
    Len(s) >= Len(prefix) /\ SubSeq(s, 1, Len(prefix)) = prefix

\* str.replace('\\', '/')
replace_backslash(s) == [ i \in 1..Len(s) |-> IF s[i] = "\\" THEN "/" ELSE s[i] ]

\* the text of a str
RECURSIVE text(_)
text(s) == IF s = << >> THEN "" ELSE Head(s) \o text(Tail(s))

\* '\n'.join(lines)
RECURSIVE join_lines(_)
join_lines(lines) ==
    IF lines = << >> THEN ""
    ELSE IF Len(lines) = 1 THEN lines[1]
    ELSE lines[1] \o "\n" \o join_lines(Tail(lines))

\* -------------------------------------------------------------- os.path

\* the separators os.path.basename splits on (posixpath: '/', ntpath: '/' and '\')
Seps(plat) == IF plat = "nt" THEN { "/", "\\" } ELSE { "/" }

\* the separator os.path.join inserts
Sep(plat) == IF plat = "nt" THEN "\\" ELSE "/"

basename(plat, p) ==
    LET cuts == { i \in 1..Len(p) : p[i] \in Seps(plat) }
        last == CHOOSE i \in cuts : \A j \in cuts : j <= i
    IN  IF cuts = {} THEN p ELSE SubSeq(p, last + 1, Len(p))

\* os.path.join(a, b) for a relative b without drive
path_join(plat, a, b) == a \o << Sep(plat) >> \o b

CustomScenery == << "C","u","s","t","o","m"," ","S","c","e","n","e","r","y" >>

\* ------------------------------------------------------------ Python list

\* sorted(seq) for a list of str: insertion sort by str_lt, stable
RECURSIVE insert_sorted(_, _)
insert_sorted(x, seq) ==
    IF seq = << >> THEN << x >>
    ELSE IF str_lt(x, Head(seq)) THEN << x >> \o seq
    ELSE << Head(seq) >> \o insert_sorted(x, Tail(seq))

\* faulty variant of sorted: the list is left in listing order
sorted_not_at_all(seq) == seq

RECURSIVE sorted(_)
sorted(seq) ==
    IF seq = << >> THEN << >>
    ELSE insert_sorted(seq[Len(seq)], sorted(SubSeq(seq, 1, Len(seq) - 1)))

Range(seq) == { seq[i] : i \in 1..Len(seq) }

\* faulty variant of list_add: the left operand is extended in place and returned
list_add_in_place(heap, a, b, new) ==
    [ ref |-> a, heap |-> [ heap EXCEPT ![a] = heap[a] \o heap[b] ] ]

\* a + b: a new list object `new` holding the elements of both operands
list_add(heap, a, b, new) ==
    [ ref |-> new, heap |-> (new :> (heap[a] \o heap[b])) @@ heap ]

\* faulty variant of list_iadd: the right operand goes in front
list_iadd_in_front(heap, a, b) == [ heap EXCEPT ![a] = heap[b] \o heap[a] ]

\* a += b: the object a refers to is extended in place
list_iadd(heap, a, b) == [ heap EXCEPT ![a] = heap[a] \o heap[b] ]

\* list(filter(...)): a new list object `new` holding the elements kept
list_filter(heap, kept, new) == (new :> kept) @@ heap

\* ------------------------------------------------------------ exceptions

KeyErrorXpl      == "KeyError: 'xplane'"
KeyErrorInstall  == "KeyError: 'install_path'"
KeyErrorScenery  == "KeyError: 'scenery'"
KeyErrorOps      == "KeyError: 'ops'"
KeyErrorMerge    == "KeyError: 'merge_mode'"
ValueErrorBool   == "ValueError: Not a boolean"
IndexErrorStr    == "IndexError: string index out of range"
NoConfigFile     == "FileNotFoundError: config file"
NoCustomScenery  == "FileNotFoundError: Custom Scenery"
CustomSceneryIsFile == "NotADirectoryError: Custom Scenery"
NoDirEntry       == "FileNotFoundError: entry of Custom Scenery"
NoCategoryFile   == "FileNotFoundError: category file"
NoOutputDir      == "FileNotFoundError: scenery_packs.ini"
Raised           == "<raised>"

\* ------------------------------------------------------- Database Loader

\* read_scenery_list on the lines of an open file
read_scenery_list(lines) ==
    [ i \in 1..Len(lines) |-> rstrip(strip(lines[i]), { "/" }) ]

\* the loop of read_scenery_db from the i-th category on; `opened` logs the opens
RECURSIVE read_scenery_db_from(_, _, _, _, _)
read_scenery_db_from(i, cfg_scen, fs, scenery_db, opened) ==
    IF i > Len(STYPES)
    THEN [ err |-> NoError, list |-> scenery_db, io |-> opened ]
    ELSE IF STYPES[i] \notin Range(cfg_scen)
    THEN read_scenery_db_from(i + 1, cfg_scen, fs, scenery_db, opened)
    ELSE IF ~ fs[STYPES[i]].exists
    THEN [ err |-> NoCategoryFile, list |-> scenery_db,
           io |-> Append(opened, << "open", STYPES[i] >>) ]
    ELSE read_scenery_db_from(i + 1, cfg_scen, fs,
                              scenery_db \o read_scenery_list(fs[STYPES[i]].lines),
                              Append(opened, << "open", STYPES[i] >>))

read_scenery_db(c, fs) ==
    IF SEC_SCENERY \notin c.sections
    THEN [ err |-> KeyErrorScenery, list |-> << >>, io |-> << >> ]
    ELSE read_scenery_db_from(1, c.scenery, fs, << >>, << >>)

\* --------------------------------------------------- Installation Scanner

\* the loop of read_xpl_custom_scenery over os.listdir's result
RECURSIVE scan_from(_, _, _, _)
scan_from(plat, i, listing, acc) ==
    IF i > Len(listing) THEN [ err |-> NoError, list |-> acc ]
    ELSE IF listing[i].kind = "dangling" THEN [ err |-> NoDirEntry, list |-> acc ]
    ELSE scan_from(plat, i + 1, listing,
                   IF listing[i].kind = "dir"
                   THEN Append(acc, path_join(plat, CustomScenery, listing[i].name))
                   ELSE acc)

read_xpl_custom_scenery(plat, d) ==
    IF d.state = "missing" THEN [ err |-> NoCustomScenery, list |-> << >> ]
    ELSE IF d.state = "file" THEN [ err |-> CustomSceneryIsFile, list |-> << >> ]
    ELSE scan_from(plat, 1, d.listing, << >>)

\* lines 150-154 of read_all_sceneries: the collision filter and the sort
filter_sort(plat, cs, ds) ==
    LET dscen_base == { basename(plat, ds[i]) : i \in 1..Len(ds) }
        keep(x) == basename(plat, x) \notin dscen_base
    IN  sorted(SelectSeq(cs, keep))

\* faulty variant of read_all_sceneries: the DB is read before the folder is scanned
read_all_sceneries_db_first(plat, c, d, fs) ==
    IF SEC_XPL \notin c.sections
    THEN [ err |-> KeyErrorXpl, dscen |-> << >>, cscen |-> << >>, io |-> << >> ]
    ELSE IF ~ c.install_path
    THEN [ err |-> KeyErrorInstall, dscen |-> << >>, cscen |-> << >>, io |-> << >> ]
    ELSE LET db == read_scenery_db(c, fs)
             listed == << << "listdir", "Custom Scenery" >> >>
         IN  IF db.err # NoError
             THEN [ err |-> db.err, dscen |-> db.list, cscen |-> << >>, io |-> db.io ]
             ELSE LET scan == read_xpl_custom_scenery(plat, d)
                  IN  IF scan.err # NoError
                      THEN [ err |-> scan.err, dscen |-> db.list, cscen |-> scan.list,
                             io |-> db.io \o listed ]
                      ELSE [ err |-> NoError, dscen |-> db.list,
                             cscen |-> filter_sort(plat, scan.list, db.list),
                             io |-> db.io \o listed ]

\* read_all_sceneries: the scan, then the DB, then the filter and the sort
read_all_sceneries(plat, c, d, fs) ==
    IF SEC_XPL \notin c.sections
    THEN [ err |-> KeyErrorXpl, dscen |-> << >>, cscen |-> << >>, io |-> << >> ]
    ELSE IF ~ c.install_path
    THEN [ err |-> KeyErrorInstall, dscen |-> << >>, cscen |-> << >>, io |-> << >> ]
    ELSE LET scan == read_xpl_custom_scenery(plat, d)
             listed == << << "listdir", "Custom Scenery" >> >>
         IN  IF scan.err # NoError
             THEN [ err |-> scan.err, dscen |-> << >>, cscen |-> scan.list, io |-> listed ]
             ELSE LET db == read_scenery_db(c, fs)
                  IN  IF db.err # NoError
                      THEN [ err |-> db.err, dscen |-> db.list, cscen |-> scan.list,
                             io |-> listed \o db.io ]
                      ELSE [ err |-> NoError, dscen |-> db.list,
                             cscen |-> filter_sort(plat, scan.list, db.list),
                             io |-> listed \o db.io ]

\* ----------------------------------------------------- Merge & Serializer

\* ConfigParser.getboolean(OPT_OPS_ZZEND, fallback=True)
getboolean(v) ==
    IF v = Absent THEN "True"
    ELSE IF v \in { "1", "yes", "true", "on" } THEN "True"
    ELSE IF v \in { "0", "no", "false", "off" } THEN "False"
    ELSE ValueErrorBool

\* faulty variant of is_zz: only the 'z' prefix is tested
is_zz_without_dash(plat, s) == startswith(basename(plat, s), << "z" >>)

\* the test of line 179
is_zz(plat, s) ==
    \/ startswith(basename(plat, s), << "z" >>)
    \/ startswith(basename(plat, s), << "-", "z" >>)

\* faulty variant of scenery_line: backslashes are kept
scenery_line_keeping_backslashes(s) ==
    "SCENERY_" \o (IF s[1] # "-" THEN "PACK" ELSE "DISABLED") \o " "
      \o text(IF s[1] # "-" THEN s ELSE Tail(s)) \o "/"

\* the format call of lines 185-188 for a non-empty s
scenery_line(s) ==
    "SCENERY_" \o (IF s[1] # "-" THEN "PACK" ELSE "DISABLED") \o " "
      \o text(replace_backslash(IF s[1] # "-" THEN s ELSE Tail(s))) \o "/"

\* lines 173-183: the lists built from the caller's objects "db" and "cs"
merge_lists(plat, merge_mode, zz_at_end, heap) ==
    LET h1 == ("zz0" :> << >>) @@ heap
        InZZ(s) == is_zz(plat, s)
        h2 == IF zz_at_end THEN list_filter(h1, SelectSeq(h1["cs"], InZZ), "zz") ELSE h1
        zz_sceneries == IF zz_at_end THEN "zz" ELSE "zz0"
        NotInZZ(s) == s \notin Range(h2[zz_sceneries])
        h3 == IF zz_at_end THEN list_filter(h2, SelectSeq(h2["cs"], NotInZZ), "rest") ELSE h2
        cs_sceneries == IF zz_at_end THEN "rest" ELSE "cs"
        sum == IF merge_mode = "top"
               THEN list_add(h3, cs_sceneries, "db", "sum")
               ELSE list_add(h3, "db", cs_sceneries, "sum")
    IN  [ ref |-> sum.ref, heap |-> list_iadd(sum.heap, sum.ref, zz_sceneries) ]

\* make_scenery_ini, called with list objects "db" and "cs" of `heap`
make_scenery_ini(plat, c, heap) ==
    IF SEC_OPS \notin c.sections
    THEN [ err |-> KeyErrorOps, text |-> Raised, heap |-> heap, sceneries |-> << >> ]
    ELSE IF c.merge_mode = Absent
    THEN [ err |-> KeyErrorMerge, text |-> Raised, heap |-> heap, sceneries |-> << >> ]
    ELSE IF getboolean(c.zz_at_end) = ValueErrorBool
    THEN [ err |-> ValueErrorBool, text |-> Raised, heap |-> heap, sceneries |-> << >> ]
    ELSE LET m == merge_lists(plat, c.merge_mode, getboolean(c.zz_at_end) = "True", heap)
             all == m.heap[m.ref]
         IN  IF \E i \in 1..Len(all) : all[i] = << >>
             THEN [ err |-> IndexErrorStr, text |-> Raised, heap |-> m.heap,
                    sceneries |-> all ]
             ELSE [ err |-> NoError,
                    text |-> HEADER \o join_lines([ i \in 1..Len(all) |-> scenery_line(all[i]) ]),
                    heap |-> m.heap, sceneries |-> all ]

\* ------------------------------------------------------------- the run

\* faulty variant of after: the exception is swallowed and the run goes on
after_swallowing(e, next_pc) == next_pc

\* an exception propagates out of rebuild_scenery_ini and main: the nested
\* calls of lines 216-222 and 229-230 go on only when the inner call returned
after(e, next_pc) == IF e = NoError THEN next_pc ELSE "failed"

\* main, lines 226-229: read_config
ReadConfig ==
    /\ pc = "main"
    /\ iolog' = Append(iolog, << "open", "config" >>)
    /\ cfg' = IF conf_file.exists THEN conf_file.cfg ELSE cfg
    /\ err' = IF conf_file.exists THEN NoError ELSE NoConfigFile
    /\ pc' = after(err', "read_all")
    /\ UNCHANGED << platform, conf_file, dir, files, outdir, dscen, cscen,
                    sceneries, results, outfile >>

\* rebuild_scenery_ini, line 220: read_all_sceneries(cfg)
ReadAllSceneries ==
    /\ pc = "read_all"
    /\ LET r == read_all_sceneries(platform, cfg, dir, files)
       IN  /\ dscen' = r.dscen
           /\ cscen' = r.cscen
           /\ iolog' = iolog \o r.io
           /\ err' = r.err
           /\ pc' = after(r.err, "make")
    /\ UNCHANGED << platform, conf_file, dir, files, outdir, cfg, sceneries,
                    results, outfile >>

\* one call make_scenery_ini(cfg, dscen, cscen) on the caller's two list objects
CallMakeSceneryIni ==
    LET r == make_scenery_ini(platform, cfg, ("db" :> dscen) @@ ("cs" :> cscen))
    IN  /\ dscen' = r.heap["db"]
        /\ cscen' = r.heap["cs"]
        /\ sceneries' = r.sceneries
        /\ results' = Append(results, [ err |-> r.err, text |-> r.text ])

\* rebuild_scenery_ini, lines 218-221
MakeSceneryIni ==
    /\ pc = "make"
    /\ CallMakeSceneryIni
    /\ err' = results'[1].err
    /\ pc' = after(err', "write")
    /\ UNCHANGED << platform, conf_file, dir, files, outdir, cfg, outfile, iolog >>

\* a caller that calls make_scenery_ini a second time with the same arguments
MakeSceneryIniAgain ==
    /\ pc \in { "write", "failed" }
    /\ Len(results) = 1
    /\ CallMakeSceneryIni
    /\ UNCHANGED << platform, conf_file, dir, files, outdir, cfg, outfile, iolog,
                    err, pc >>

\* rebuild_scenery_ini, line 216: write_scenery_ini(cfg, sini)
WriteSceneryIni ==
    /\ pc = "write"
    /\ iolog' = Append(iolog, << "open for writing", "scenery_packs.ini" >>)
    /\ LET explicit == cfg.scenery_packs
           opened == ~ explicit \/ outdir
       IN  /\ outfile' = IF opened THEN results[Len(results)].text ELSE outfile
           /\ err' = IF opened THEN NoError ELSE NoOutputDir
           /\ pc' = after(err', "done")
    /\ UNCHANGED << platform, conf_file, dir, files, outdir, cfg, dscen, cscen,
                    sceneries, results >>

\* --------------------------------------------------------------- inputs

Platforms == { "posix", "nt" }

\* lists of at most n elements of S
SeqsUpTo(S, n) == UNION { [ 1..k -> S ] : k \in 0..n }

\* lists of at most n distinct elements of S
DistinctSeqsUpTo(S, n) ==
    { q \in SeqsUpTo(S, n) : \A i, j \in 1..Len(q) : i # j => q[i] # q[j] }

\* names of children of the Custom Scenery folder
LiveNames == { << "a" >>, << "Z" >>, << "z" >>, << "-", "z" >> }

\* lines of category list files, as readlines() returns them
LineA            == CustomScenery \o << "/", "a", "/", "\n" >>
LineDisabledZ    == << "-" >> \o CustomScenery \o << "/", "z", "\n" >>
LineBareDisabled == << "-", "a", "\n" >>
LineBlank        == << " ", "\n" >>
DbLines == { LineA, LineDisabledZ, LineBareDisabled, LineBlank }

NoFile == [ exists |-> FALSE, lines |-> << >> ]
File(lines) == [ exists |-> TRUE, lines |-> lines ]
NoFiles == [ t \in Range(STYPES) |-> NoFile ]

Config(secs, scen, inst, packs, mode, zz) ==
    [ sections |-> secs, scenery |-> scen, install_path |-> inst,
      scenery_packs |-> packs, merge_mode |-> mode, zz_at_end |-> zz ]

\* the ConfigParser() of line 60, before read_file
EmptyConfig == Config({}, << >>, FALSE, FALSE, Absent, Absent)

AllSections == { SEC_SCENERY, SEC_XPL, SEC_OPS }

Folder(listing) == [ state |-> "dir", listing |-> listing ]
Child(name, kind) == [ name |-> name, kind |-> kind ]

Fresh ==
    /\ dscen = << >>
    /\ cscen = << >>
    /\ sceneries = << >>
    /\ results = << >>
    /\ err = NoError
    /\ outfile = Untouched
    /\ iolog = << >>

\* the merge: a valid configuration, one category file, a folder of directories
InitMerge ==
    /\ platform \in Platforms
    /\ \E mode \in { "top", "bottom" }, zz \in { "true", "false" } :
         cfg = Config(AllSections, << OPT_SCENERY_TOP >>, TRUE, FALSE, mode, zz)
    /\ conf_file = [ exists |-> TRUE, cfg |-> cfg ]
    /\ \E names \in DistinctSeqsUpTo(LiveNames, MaxLive) :
         dir = Folder([ i \in 1..Len(names) |-> Child(names[i], "dir") ])
    /\ \E lines \in SeqsUpTo(DbLines, MaxLines) :
         files = [ NoFiles EXCEPT ![OPT_SCENERY_TOP] = File(lines) ]
    /\ outdir = TRUE
    /\ pc = "read_all"
    /\ Fresh

NextMerge == ReadAllSceneries \/ MakeSceneryIni \/ MakeSceneryIniAgain

SpecMerge == InitMerge /\ [][NextMerge]_vars

\* the DB loader: any choice and order of category options, any category files
DbFiles ==
    { NoFile, File(<< >>), File(<< LineA >>), File(<< LineBareDisabled, LineDisabledZ >>) }

InitDb ==
    /\ platform = "posix"
    /\ \E order \in DistinctSeqsUpTo(Range(STYPES), MaxCats) :
         /\ cfg = Config(AllSections, order, TRUE, FALSE, "bottom", Absent)
         /\ \E fs \in [ Range(order) -> DbFiles ] :
              files = [ t \in Range(STYPES) |-> IF t \in Range(order) THEN fs[t] ELSE NoFile ]
    /\ conf_file = [ exists |-> TRUE, cfg |-> cfg ]
    /\ dir = Folder(<< >>)
    /\ outdir = TRUE
    /\ pc = "read_all"
    /\ Fresh

NextDb == ReadAllSceneries

SpecDb == InitDb /\ [][NextDb]_vars

\* a whole run of main
RunConfigs ==
    { Config(secs, scen, inst, packs, mode, zz) :
        secs \in { AllSections, AllSections \ { SEC_XPL }, AllSections \ { SEC_SCENERY },
                   AllSections \ { SEC_OPS } },
        scen \in { << >>, << OPT_SCENERY_MESHES, OPT_SCENERY_TOP >> },
        inst \in BOOLEAN, packs \in BOOLEAN,
        mode \in { "top", "bottom", Absent },
        zz \in { "off", "maybe", Absent } }

RunFolders ==
    { [ state |-> "missing", listing |-> << >> ],
      [ state |-> "file", listing |-> << >> ],
      Folder(<< >>),
      Folder(<< Child(<< "z" >>, "dir"), Child(<< "a" >>, "file"), Child(<< "a">>, "dir") >>),
      Folder(<< Child(<< "Z" >>, "dir"), Child(<< "a" >>, "dangling") >>) }

RunFiles == { NoFile, File(<< LineA >>), File(<< LineDisabledZ, LineBlank >>) }

Init ==
    /\ platform \in Platforms
    /\ conf_file \in { [ exists |-> FALSE, cfg |-> EmptyConfig ] }
                       \cup { [ exists |-> TRUE, cfg |-> c ] : c \in RunConfigs }
    /\ cfg = EmptyConfig
    /\ dir \in RunFolders
    /\ \E top \in RunFiles, base \in { NoFile, File(<< LineBareDisabled >>) } :
         files = [ NoFiles EXCEPT ![OPT_SCENERY_TOP] = top, ![OPT_SCENERY_MESHES] = base ]
    /\ outdir \in BOOLEAN
    /\ pc = "main"
    /\ Fresh

Next == ReadConfig \/ ReadAllSceneries \/ MakeSceneryIni \/ WriteSceneryIni

Spec == Init /\ [][Next]_vars

\* ------------------------------------------------------- terms of the claims

\* the merge of lines 178-183 has run in the latest call of make_scenery_ini
Merged == results # << >> /\ results[1].err \in { NoError, IndexErrorStr }

\* the zz_at_end option is on (its default when the option is absent)
ZzAtEnd == cfg.zz_at_end \in { "1", "yes", "true", "on", Absent }

\* the final path component of an entry
RECURSIVE LastPart(_)
LastPart(s) ==
    IF s = << >> THEN << >>
    ELSE IF s[Len(s)] \in Seps(platform) THEN << >>
    ELSE Append(LastPart(SubSeq(s, 1, Len(s) - 1)), s[Len(s)])

\* the base name of an entry starts with z or with -z
HasZZName(s) ==
    LET b == LastPart(s)
    IN  \/ Len(b) >= 1 /\ b[1] = "z"
        \/ Len(b) >= 2 /\ b[1] = "-" /\ b[2] = "z"

NoZZName(s) == ~ HasZZName(s)

\* the base name as the data model defines it: final component, marker stripped
MarkerStrippedBase(s) ==
    LastPart(IF s # << >> /\ s[1] = "-" THEN Tail(s) ELSE s)

Count(x, seq) == Cardinality({ i \in 1..Len(seq) : seq[i] = x })

\* the same elements with the same multiplicities
SameBag(p, q) ==
    \A x \in Range(p) \cup Range(q) : Count(x, p) = Count(x, q)

\* the Live list as scanned: one entry per directory of the folder, in listing order
ScannedLive ==
    LET dirs == SelectSeq(dir.listing, LAMBDA c : c.kind = "dir")
    IN  [ i \in 1..Len(dirs) |-> CustomScenery \o << Sep(platform) >> \o dirs[i].name ]

\* q is ascending by full entry string
Ascending(q) == \A i, j \in 1..Len(q) : i < j => (q[i] = q[j] \/ str_lt(q[i], q[j]))

\* q is filtered-sorted(ScannedLive): the scanned entries whose final path
\* component is the final path component of no entry of D, ascending
FilteredSorted(q, D) ==
    /\ Ascending(q)
    /\ SameBag(q, SelectSeq(ScannedLive,
                 LAMBDA e : \A i \in 1..Len(D) : LastPart(D[i]) # LastPart(e)))

\* ------------------------------------------------------------------ C1

\* C1: the entries rendered by make_scenery_ini are rest ++ D ++ ZZ for
\* merge_mode top and D ++ rest ++ ZZ otherwise, where with zz_at_end on ZZ is
\* the subsequence of L with a zz base name and rest the other entries of L,
\* and with zz_at_end off ZZ is empty and rest is L.
C1_MergeOrder ==
    Merged =>
      LET ZZ   == IF ZzAtEnd THEN SelectSeq(cscen, HasZZName) ELSE << >>
          rest == IF ZzAtEnd THEN SelectSeq(cscen, NoZZName) ELSE cscen
      IN  sceneries = IF cfg.merge_mode = "top"
                      THEN rest \o dscen \o ZZ
                      ELSE dscen \o rest \o ZZ

C1_Witness ==
    /\ Merged
    /\ results[1].err = NoError
    /\ ZzAtEnd
    /\ cfg.merge_mode = "top"
    /\ dscen # << >>
    /\ \E i, j \in 1..Len(cscen) : i < j /\ HasZZName(cscen[i]) /\ ~ HasZZName(cscen[j])

\* ------------------------------------------------------------------ C2

\* the base names (final path components) of D and of the scanned L are disjoint
DisjointBaseNames ==
    \A i \in 1..Len(dscen), j \in 1..Len(ScannedLive) :
        /\ LastPart(dscen[i]) # LastPart(ScannedLive[j])
        /\ MarkerStrippedBase(dscen[i]) # MarkerStrippedBase(ScannedLive[j])

\* C2 as stated: for D and L with disjoint base names the merge is
\* D ++ filtered-sorted(L) for Bottom and filtered-sorted(L) ++ D for Top,
\* whatever zz_at_end is and whatever L holds.
C2_MergeIsConcatenation ==
    (Merged /\ results[1].err = NoError /\ DisjointBaseNames) =>
      \E fs \in { cscen } :
        /\ FilteredSorted(fs, dscen)
        /\ sceneries = IF cfg.merge_mode = "top" THEN fs \o dscen ELSE dscen \o fs

\* C2 amended: for D and L with disjoint base names, when zz_at_end is off or
\* no entry of L has a zz base name, the merge is D ++ filtered-sorted(L) for
\* Bottom and filtered-sorted(L) ++ D for Top; when zz_at_end is on, the zz
\* entries of filtered-sorted(L) are moved behind everything else.
C2_MergeIsConcatenationUnlessZZ ==
    (Merged /\ DisjointBaseNames) =>
      \E fs \in { cscen } :
        /\ FilteredSorted(fs, dscen)
        /\ (~ ZzAtEnd \/ \A i \in 1..Len(fs) : ~ HasZZName(fs[i])) =>
             sceneries = IF cfg.merge_mode = "top" THEN fs \o dscen ELSE dscen \o fs
        /\ ZzAtEnd =>
             sceneries = IF cfg.merge_mode = "top"
                         THEN SelectSeq(fs, NoZZName) \o dscen \o SelectSeq(fs, HasZZName)
                         ELSE dscen \o SelectSeq(fs, NoZZName) \o SelectSeq(fs, HasZZName)

\* D and L disjoint, zz_at_end off, L scanned out of order and holding a zz entry
C2_Witness ==
    /\ Merged
    /\ results[1].err = NoError
    /\ DisjointBaseNames
    /\ ~ ZzAtEnd
    /\ dscen # << >>
    /\ Len(ScannedLive) >= 2
    /\ ~ Ascending(ScannedLive)
    /\ \E i \in 1..Len(cscen) : HasZZName(cscen[i])

\* ------------------------------------------------------------------ C3

\* C3: an entry of the scanned Live list whose base name (final path
\* component, disable marker stripped) is the base name of an entry of D is
\* absent from the output: the output holds that string only as often as D does.
C3_CollidingLiveEntryAbsent ==
    Merged =>
      \A j \in 1..Len(ScannedLive) :
        (\E i \in 1..Len(dscen) :
            MarkerStrippedBase(dscen[i]) = MarkerStrippedBase(ScannedLive[j]))
        => Count(ScannedLive[j], sceneries) = Count(ScannedLive[j], dscen)

\* ------------------------------------------------------------------ C4

\* C4: with zz_at_end on, the Live entries with a zz base name are the last
\* entries of the output, behind every DB entry and every other Live entry,
\* for both merge modes.
C4_ZZTrailing ==
    (Merged /\ ZzAtEnd) =>
      LET zz == SelectSeq(cscen, HasZZName)
          n  == Len(sceneries)
          k  == Len(zz)
      IN  /\ k <= n
          /\ SubSeq(sceneries, n - k + 1, n) = zz
          /\ SameBag(SubSeq(sceneries, 1, n - k), dscen \o SelectSeq(cscen, NoZZName))

\* a zz Live entry, a Live entry named Z, and a DB entry with a zz base name
C4_Witness ==
    /\ Merged
    /\ results[1].err = NoError
    /\ ZzAtEnd
    /\ \E i \in 1..Len(cscen) : HasZZName(cscen[i])
    /\ \E i \in 1..Len(cscen) : LastPart(cscen[i]) = << "Z" >>
    /\ \E i \in 1..Len(dscen) : HasZZName(dscen[i])

\* ------------------------------------------------------------------ C5

\* the path of a line: every backslash written as a forward slash
RECURSIVE SlashText(_)
SlashText(p) ==
    IF p = << >> THEN ""
    ELSE (IF Head(p) = "\\" THEN "/" ELSE Head(p)) \o SlashText(Tail(p))

LineOf(s) ==
    IF s[1] = "-" THEN "SCENERY_DISABLED " \o SlashText(Tail(s)) \o "/"
    ELSE "SCENERY_PACK " \o SlashText(s) \o "/"

\* the lines of the entries from the i-th on, a newline between two lines
RECURSIVE LinesFrom(_, _)
LinesFrom(i, q) ==
    IF i > Len(q) THEN ""
    ELSE LineOf(q[i]) \o (IF i < Len(q) THEN "\n" ELSE "") \o LinesFrom(i + 1, q)

\* C5: the string make_scenery_ini returns is the four header lines followed
\* by one line per entry of the final sequence, in order, joined by newlines
\* with no trailing newline; '-X' renders as SCENERY_DISABLED X/ and any other
\* entry X as SCENERY_PACK X/, backslashes written as forward slashes.
C5_Rendering ==
    \A c \in 1..Len(results) :
      results[c].err = NoError =>
        /\ results[c].text =
             "I" \o "\n" \o "1000 Version" \o "\n" \o "SCENERY" \o "\n" \o "\n"
               \o LinesFrom(1, sceneries)
        /\ sceneries = << << "-" >> \o CustomScenery \o << "/", "z" >> >> =>
             results[c].text =
               "I\n1000 Version\nSCENERY\n\nSCENERY_DISABLED Custom Scenery/z/"

\* a disabled entry and an entry joined with a backslash were rendered
C5_Witness ==
    /\ results # << >>
    /\ results[1].err = NoError
    /\ Len(sceneries) >= 2
    /\ \E i \in 1..Len(sceneries) : sceneries[i][1] = "-"
    /\ \E i \in 1..Len(sceneries) : \E j \in 1..Len(sceneries[i]) : sceneries[i][j] = "\\"

\* ------------------------------------------------------------------ C9

\* C9: two calls of make_scenery_ini in succession on the same configuration
\* and the same two list objects return the same, and no call changes either
\* list object.
C9_Idempotent ==
    /\ [](Len(results) = 2 => results[1] = results[2])
    /\ [][results' # results => (dscen' = dscen /\ cscen' = cscen)]_vars

\* both calls returned a text, with zz entries moved behind a non-empty D
C9_Witness ==
    /\ Len(results) = 2
    /\ results[2].err = NoError
    /\ ZzAtEnd
    /\ dscen # << >>
    /\ \E i \in 1..Len(cscen) : HasZZName(cscen[i])
    /\ \E i \in 1..Len(cscen) : ~ HasZZName(cscen[i])

\* ------------------------------------------------------------------ C10

\* C10: for every DB list read_scenery_list can produce and every Live list,
\* make_scenery_ini returns normally with one rendered line per entry.
C10_RenderingTotal ==
    \A c \in 1..Len(results) :
      results[c].err \notin { KeyErrorOps, KeyErrorMerge, ValueErrorBool } =>
        results[c].err = NoError

\* ------------------------------------------------------------------ C6

\* the categories in their precedence order: Top, CustomAirports,
\* DefaultAirports, Libraries, Meshes
CategoryOrder == << "top", "custom_airports", "default_airports", "libraries", "base" >>

\* the entries of a category: those of its file if the option is configured
EntriesOf(t) ==
    IF t \in Range(cfg.scenery) THEN read_scenery_list(files[t].lines) ELSE << >>

OpenedForWriting == \E i \in 1..Len(iolog) : iolog[i][1] = "open for writing"

\* the configuration, the folder and the category files let both loads succeed
Loadable ==
    /\ conf_file.exists
    /\ { SEC_XPL, SEC_SCENERY } \subseteq conf_file.cfg.sections
    /\ conf_file.cfg.install_path
    /\ dir.state = "dir"
    /\ \A i \in 1..Len(dir.listing) : dir.listing[i].kind # "dangling"
    /\ \A t \in Range(conf_file.cfg.scenery) : files[t].exists

\* C7: if a step before the write fails, the error ends the run and the
\* output file is neither opened nor modified; the file is opened and written
\* only when the loads, the merge and the rendering have all succeeded.
C7_NoOutputOnFailure ==
    /\ err # NoError => (pc = "failed" /\ outfile = Untouched)
    /\ (OpenedForWriting \/ outfile # Untouched) =>
         /\ Loadable
         /\ Len(results) = 1
         /\ results[1].err = NoError
    /\ outfile # Untouched => (pc = "done" /\ outfile = results[1].text)

\* rendering failed after both loads succeeded, and nothing was written
C7_Witness ==
    /\ pc = "failed"
    /\ err = IndexErrorStr
    /\ Loadable
    /\ ~ OpenedForWriting
    /\ outfile = Untouched

\* ------------------------------------------------------------------ C8

IsListdir(op)      == op[1] = "listdir"
IsCategoryOpen(op) == op[1] = "open" /\ op[2] \in Range(CategoryOrder)
IsConfigOpen(op)   == op[1] = "open" /\ op[2] = "config"
IsWriteOpen(op)    == op[1] = "open for writing"

\* both the folder and a configured category file are missing, and the run
\* failed on one of them
BothMissing ==
    /\ pc = "failed"
    /\ err \in { NoCustomScenery, NoCategoryFile }
    /\ dir.state = "missing"
    /\ \E t \in Range(cfg.scenery) : ~ files[t].exists

\* the stages around the two loads are in order: config, loads, merge, write
OtherStagesInOrder ==
    /\ \A i, j \in 1..Len(iolog) :
         (i < j /\ IsConfigOpen(iolog[j])) => FALSE
    /\ \A i, j \in 1..Len(iolog) :
         (i < j /\ IsWriteOpen(iolog[i])) => FALSE
    /\ results # << >> => \E i \in 1..Len(iolog) : IsListdir(iolog[i])
    /\ OpenedForWriting => results # << >>

\* C8 as stated: the stages run in the order load config, load DB, scan
\* installation, merge, serialize, write: the category files are read before
\* the folder is listed, and when both are missing the failure is the missing
\* category file.
C8_DbBeforeScan ==
    /\ OtherStagesInOrder
    /\ \A i, j \in 1..Len(iolog) :
         (IsListdir(iolog[i]) /\ IsCategoryOpen(iolog[j])) => j < i
    /\ BothMissing => err = NoCategoryFile

\* C8 amended: the stages run in the order load config, scan installation,
\* load DB, merge, serialize, write: the folder is listed before any category
\* file is read, and when both are missing the failure is the missing folder.
C8_ScanBeforeDb ==
    /\ OtherStagesInOrder
    /\ \A i, j \in 1..Len(iolog) :
         (IsListdir(iolog[i]) /\ IsCategoryOpen(iolog[j])) => i < j
    /\ BothMissing => err = NoCustomScenery

\* a run that failed with the folder and a configured category file both missing
C8_Witness ==
    /\ BothMissing
    /\ err = NoCustomScenery
    /\ \E i \in 1..Len(iolog) : IsListdir(iolog[i])

====
